---- MODULE Spec2Model ----
(***************************************************************************)
(* Model of src/app.py: the interactive loop main() and the per-question   *)
(* pipeline get_schema_ddl -> generate_sql (model call + guardrail) ->     *)
(* run_sql -> summarize.                                                   *)
(*                                                                         *)
(* Text is a sequence of character codes (ASCII), so that str.strip(),     *)
(* str.rstrip(";"), str.lower() and the two regular expressions are        *)
(* computed character by character.                                        *)
(***************************************************************************)
EXTENDS Integers, Sequences, FiniteSets

VARIABLES
    pc,         \* position of main(): which line runs next
    line,       \* <<>> before the first input(), else <<raw line read>>
    q,          \* main's q: the stripped input line
    candidate,  \* <<>> or <<resp.output_text>> of generate_sql's model call
    sql,        \* generate_sql's local sql / main's sql
    cols,       \* main's cols
    rows,       \* main's rows
    preview,    \* <<>> or <<the preview dict built by summarize>>
    out,        \* sections printed since the last input line
    exc,        \* <<>> or <<the exception raised since the last input line>>
    conns,      \* database connections currently open
    opened,     \* connections opened since the last input line
    executed,   \* statements run_sql passed to cur.execute since the last input line
    modelCalls  \* client.responses.create calls since the last input line

vars == <<pc, line, q, candidate, sql, cols, rows, preview, out, exc,
          conns, opened, executed, modelCalls>>

(***************************************************************************)
(* Bounds                                                                  *)
(***************************************************************************)
MaxTokens == 3      \* a model output is at most this many tokens long
MaxRows == 51       \* a result set has at most this many rows
MaxCols == 1        \* a result set has at most this many columns

(***************************************************************************)
(* Characters and text                                                     *)
(***************************************************************************)
\* str.isspace / regex \s on ASCII: \t \n \v \f \r, \x1c-\x1f, space
IsSpace(c) == c \in (9..13) \cup (28..32)

\* regex \d on ASCII
IsDigit(c) == c \in 48..57

\* regex \w on ASCII: letters, digits, underscore
IsWord(c) == c \in (48..57) \cup (65..90) \cup (97..122) \cup {95}

\* str.lower() / (?i) on one ASCII character
LowerChar(c) == IF c \in 65..90 THEN c + 32 ELSE c

Lower(s) == [i \in 1..Len(s) |-> LowerChar(s[i])]

SetMin(S) == CHOOSE x \in S : \A y \in S : x <= y
SetMax(S) == CHOOSE x \in S : \A y \in S : x >= y

\* str.rstrip(): drop trailing whitespace
RStrip(s) ==
    LET keep == {i \in 1..Len(s) : ~IsSpace(s[i])}
    IN  IF keep = {} THEN <<>> ELSE SubSeq(s, 1, SetMax(keep))

\* str.strip(): drop leading and trailing whitespace
Strip(s) ==
    LET keep == {i \in 1..Len(s) : ~IsSpace(s[i])}
    IN  IF keep = {} THEN <<>> ELSE SubSeq(s, SetMin(keep), SetMax(keep))

\* str.rstrip(";"): drop every trailing ';' (code 59)
RStripSemi(s) ==
    LET keep == {i \in 1..Len(s) : s[i] # 59}
    IN  IF keep = {} THEN <<>> ELSE SubSeq(s, 1, SetMax(keep))

\* does the text kw (lower case) occur in s at positions i..i+Len(kw)-1, ignoring case
KeywordAt(s, i, kw) ==
    /\ i >= 1
    /\ i + Len(kw) - 1 <= Len(s)
    /\ \A k \in 1..Len(kw) : LowerChar(s[i + k - 1]) = kw[k]

\* regex \b between s[i] and s[i+1] (i = 0: start of text, i = Len(s): end of text)
WordBoundary(s, i) ==
    LET before == i >= 1 /\ i <= Len(s) /\ IsWord(s[i])
        after  == i + 1 >= 1 /\ i + 1 <= Len(s) /\ IsWord(s[i + 1])
    IN  before # after

SelectKw == <<115, 101, 108, 101, 99, 116>>         \* "select"
LimitKw == <<108, 105, 109, 105, 116>>              \* "limit"
LimitSuffix == <<32, 76, 73, 77, 73, 84, 32, 49, 48, 48, 59>>   \* " LIMIT 100;"
ExitWord == <<101, 120, 105, 116>>                  \* "exit"
QuitWord == <<113, 117, 105, 116>>                  \* "quit"

\* re.match(r"(?is)^\s*select\b", s)
MatchSelect(s) ==
    \E i \in 0..Len(s) :
        /\ \A j \in 1..i : IsSpace(s[j])
        /\ KeywordAt(s, i + 1, SelectKw)
        /\ WordBoundary(s, i + Len(SelectKw))

\* the limit pattern without the (?i) flag: only lower-case "limit" is found
SearchLimitCaseSensitive(s) ==
    \E i \in 1..Len(s) :
        /\ i + Len(LimitKw) - 1 <= Len(s)
        /\ \A k \in 1..Len(LimitKw) : s[i + k - 1] = LimitKw[k]
        /\ WordBoundary(s, i - 1)
        /\ \E b \in (i + Len(LimitKw) + 1)..Len(s) :
              /\ \A j \in (i + Len(LimitKw))..(b - 1) : IsSpace(s[j])
              /\ \E e \in b..Len(s) :
                    /\ \A j \in b..e : IsDigit(s[j])
                    /\ WordBoundary(s, e)

\* re.search(r"(?is)\blimit\s+\d+\b", s): "limit" at i after a word boundary,
\* whitespace up to b - 1 (at least one), digits b..e, a word boundary after e
SearchLimit(s) ==
    \E i \in 1..Len(s) :
        /\ KeywordAt(s, i, LimitKw)
        /\ WordBoundary(s, i - 1)
        /\ \E b \in (i + Len(LimitKw) + 1)..Len(s) :
              /\ \A j \in (i + Len(LimitKw))..(b - 1) : IsSpace(s[j])
              /\ \E e \in b..Len(s) :
                    /\ \A j \in b..e : IsDigit(s[j])
                    /\ WordBoundary(s, e)

\* sql.rstrip().rstrip(";") + " LIMIT 100;" with only one trailing ';' dropped
AppendLimitOneSemi(s) ==
    LET t == RStrip(s)
    IN  (IF Len(t) > 0 /\ t[Len(t)] = 59 THEN SubSeq(t, 1, Len(t) - 1) ELSE t)
            \o LimitSuffix

\* line 73: sql.rstrip().rstrip(";") + " LIMIT 100;"
AppendLimit(s) == RStripSemi(RStrip(s)) \o LimitSuffix

\* lines 72-75: the text generate_sql returns for an accepted, stripped s
WithLimit(s) == IF ~SearchLimit(s) THEN AppendLimit(s) ELSE s

\* rows[:n]
Slice(s, n) == SubSeq(s, 1, IF Len(s) < n THEN Len(s) ELSE n)

\* line 89: the number of rows kept in the preview
PreviewRows == 50

(***************************************************************************)
(* Inputs                                                                  *)
(***************************************************************************)
\* pieces a model output is assembled from:
\* "SELECT"  "select"  " "  ";"  "Limit 5"  "5"  "DROP"
Tokens ==
    { <<83, 69, 76, 69, 67, 84>>, <<115, 101, 108, 101, 99, 116>>, <<32>>, <<59>>,
      <<76, 105, 109, 105, 116, 32, 53>>, <<53>>, <<68, 82, 79, 80>> }

RECURSIVE Flatten(_)
Flatten(ts) == IF ts = <<>> THEN <<>> ELSE Head(ts) \o Flatten(Tail(ts))

TokenSeqs == UNION {[1..n -> Tokens] : n \in 0..MaxTokens}

\* the texts resp.output_text may be
Candidates == {Flatten(ts) : ts \in TokenSeqs}

\* the lines input() may return:
\* "exit"  "EXIT"  " Quit "  "exits"  ""
Lines ==
    { <<101, 120, 105, 116>>, <<69, 88, 73, 84>>, <<32, 81, 117, 105, 116, 32>>,
      <<101, 120, 105, 116, 115>>, <<>> }

\* the row counts a result set may have
RowCounts == {n \in 0..MaxRows : n <= 1 \/ n >= PreviewRows}

\* a result set of nc columns and n rows: column names 1..nc, row i is <<i, ..., i>>
ResultCols(nc) == [j \in 1..nc |-> j]
ResultRows(nc, n) == [i \in 1..n |-> [j \in 1..nc |-> i]]

(***************************************************************************)
(* State machine                                                           *)
(***************************************************************************)
Init ==
    /\ pc = "input"
    /\ line = <<>>
    /\ q = <<>>
    /\ candidate = <<>>
    /\ sql = <<>>
    /\ cols = <<>>
    /\ rows = <<>>
    /\ preview = <<>>
    /\ out = <<>>
    /\ exc = <<>>
    /\ conns = {}
    /\ opened = 0
    /\ executed = <<>>
    /\ modelCalls = 0

\* an exception leaves the current step and propagates to line 115
Raise(kind, text) ==
    /\ exc' = <<[kind |-> kind, text |-> text]>>
    /\ pc' = "except"

\* lines 102-104 without .lower(): only the lower-case words end the loop
ReadInputNoLower(l) ==
    /\ pc = "input"
    /\ line' = <<l>>
    /\ q' = Strip(l)
    /\ pc' = IF Strip(l) \in {ExitWord, QuitWord} THEN "exited" ELSE "connect_schema"
    /\ candidate' = <<>> /\ sql' = <<>> /\ cols' = <<>> /\ rows' = <<>>
    /\ preview' = <<>> /\ out' = <<>> /\ exc' = <<>>
    /\ opened' = 0 /\ executed' = <<>> /\ modelCalls' = 0
    /\ UNCHANGED conns

\* lines 102-106: q = input().strip(); break on exit/quit, else enter the try block.
\* The locals of the previous iteration are dead (each is assigned before it is
\* read), so they are cleared here, as are the per-line records.
ReadInput(l) ==
    /\ pc = "input"
    /\ line' = <<l>>
    /\ q' = Strip(l)
    /\ pc' = IF Lower(Strip(l)) \in {ExitWord, QuitWord} THEN "exited" ELSE "connect_schema"
    /\ candidate' = <<>> /\ sql' = <<>> /\ cols' = <<>> /\ rows' = <<>>
    /\ preview' = <<>> /\ out' = <<>> /\ exc' = <<>>
    /\ opened' = 0 /\ executed' = <<>> /\ modelCalls' = 0
    /\ UNCHANGED conns

\* line 102: input() raises EOFError outside the try block; the process ends
ReadEOF ==
    /\ pc = "input"
    /\ pc' = "crashed"
    /\ UNCHANGED <<line, q, candidate, sql, cols, rows, preview, out, exc,
                   conns, opened, executed, modelCalls>>

\* line 21: mysql.connect succeeds
ConnectSchema ==
    /\ pc = "connect_schema"
    /\ conns' = conns \cup {"schema"}
    /\ opened' = opened + 1
    /\ pc' = "introspect"
    /\ UNCHANGED <<line, q, candidate, sql, cols, rows, preview, out, exc,
                   executed, modelCalls>>

\* line 21: mysql.connect raises; no connection exists
ConnectSchemaFails ==
    /\ pc = "connect_schema"
    /\ Raise("DatabaseError", <<>>)
    /\ UNCHANGED <<line, q, candidate, sql, cols, rows, preview, out,
                   conns, opened, executed, modelCalls>>

\* lines 22-37: the catalog queries succeed; finally closes the connection
Introspect ==
    /\ pc = "introspect"
    /\ conns' = conns \ {"schema"}
    /\ pc' = "model_sql"
    /\ UNCHANGED <<line, q, candidate, sql, cols, rows, preview, out, exc,
                   opened, executed, modelCalls>>

\* lines 22-37 with the close on the success path only (no finally)
IntrospectFailsNoFinally ==
    /\ pc = "introspect"
    /\ Raise("DatabaseError", <<>>)
    /\ UNCHANGED <<line, q, candidate, sql, cols, rows, preview, out,
                   conns, opened, executed, modelCalls>>

\* lines 22-37: a catalog query raises; finally closes the connection
IntrospectFails ==
    /\ pc = "introspect"
    /\ conns' = conns \ {"schema"}
    /\ Raise("DatabaseError", <<>>)
    /\ UNCHANGED <<line, q, candidate, sql, cols, rows, preview, out,
                   opened, executed, modelCalls>>

\* lines 57-64: the model call returns the text c
ModelSql(c) ==
    /\ pc = "model_sql"
    /\ modelCalls' = modelCalls + 1
    /\ candidate' = <<c>>
    /\ pc' = "guard"
    /\ UNCHANGED <<line, q, sql, cols, rows, preview, out, exc,
                   conns, opened, executed>>

\* lines 57-64: the model call raises
ModelSqlFails ==
    /\ pc = "model_sql"
    /\ modelCalls' = modelCalls + 1
    /\ Raise("ModelError", <<>>)
    /\ UNCHANGED <<line, q, candidate, sql, cols, rows, preview, out,
                   conns, opened, executed>>

\* lines 65-69: does generate_sql raise on the model output c
Rejects(c) == ~MatchSelect(Strip(c))

\* lines 65-75: the text generate_sql returns for a model output c it accepts
ApprovedSql(c) == WithLimit(Strip(c))

\* lines 65-75 for every model output: what generate_sql raises or returns
GuardrailResult ==
    [c \in Candidates |->
        IF Rejects(c) THEN [raises |-> TRUE, text |-> Strip(c)]
                      ELSE [raises |-> FALSE, text |-> ApprovedSql(c)]]

\* lines 65-75 without the raise of line 69: a non-SELECT text falls through
GuardrailNoRaise ==
    /\ pc = "guard"
    /\ sql' = ApprovedSql(candidate[1])
    /\ out' = Append(out, "SQL")
    /\ pc' = "connect_exec"
    /\ UNCHANGED <<line, q, candidate, cols, rows, preview, exc,
                   conns, opened, executed, modelCalls>>

\* lines 65-75 and 106-107: strip, reject a non-SELECT text with ValueError,
\* add the limit, return to main, which prints the [SQL] section
Guardrail ==
    /\ pc = "guard"
    /\ IF GuardrailResult[candidate[1]].raises
       THEN /\ Raise("ValueError", GuardrailResult[candidate[1]].text)
            /\ UNCHANGED <<sql, out>>
       ELSE /\ sql' = GuardrailResult[candidate[1]].text
            /\ out' = Append(out, "SQL")
            /\ pc' = "connect_exec"
            /\ UNCHANGED exc
    /\ UNCHANGED <<line, q, candidate, cols, rows, preview,
                   conns, opened, executed, modelCalls>>

\* line 78: mysql.connect succeeds
ConnectExec ==
    /\ pc = "connect_exec"
    /\ conns' = conns \cup {"exec"}
    /\ opened' = opened + 1
    /\ pc' = "execute"
    /\ UNCHANGED <<line, q, candidate, sql, cols, rows, preview, out, exc,
                   executed, modelCalls>>

\* line 78: mysql.connect raises
ConnectExecFails ==
    /\ pc = "connect_exec"
    /\ Raise("DatabaseError", <<>>)
    /\ UNCHANGED <<line, q, candidate, sql, cols, rows, preview, out,
                   conns, opened, executed, modelCalls>>

\* lines 79-86 and 108: cur.execute(sql) succeeds with nc columns and n rows
\* (nc = 0: cur.description is empty, no result set); finally closes
Execute(nc, n) ==
    /\ pc = "execute"
    /\ nc = 0 => n = 0
    /\ executed' = Append(executed, sql)
    /\ cols' = ResultCols(nc)
    /\ rows' = ResultRows(nc, n)
    /\ conns' = conns \ {"exec"}
    /\ pc' = "render"
    /\ UNCHANGED <<line, q, candidate, sql, preview, out, exc, opened, modelCalls>>

\* lines 79-86: cur.execute(sql) or fetchall raises; finally closes
ExecuteFails ==
    /\ pc = "execute"
    /\ executed' = Append(executed, sql)
    /\ conns' = conns \ {"exec"}
    /\ Raise("DatabaseError", <<>>)
    /\ UNCHANGED <<line, q, candidate, sql, cols, rows, preview, out,
                   opened, modelCalls>>

\* lines 109-113 without the else branch: nothing is printed when cols is empty
RenderNoNotice ==
    /\ pc = "render"
    /\ out' = IF cols # <<>> THEN Append(out, "RESULT") ELSE out
    /\ pc' = "summarize"
    /\ UNCHANGED <<line, q, candidate, sql, cols, rows, preview, exc,
                   conns, opened, executed, modelCalls>>

\* lines 109-113: the table when cols is non-empty, else the "(no rows)" notice
Render ==
    /\ pc = "render"
    /\ out' = Append(out, IF cols # <<>> THEN "RESULT" ELSE "RESULT (no rows)")
    /\ pc' = "summarize"
    /\ UNCHANGED <<line, q, candidate, sql, cols, rows, preview, exc,
                   conns, opened, executed, modelCalls>>

\* line 89 with the slice taken from the end: rows[-50:]
BuildPreviewTail(c, r) ==
    [columns |-> c,
     rows |-> SubSeq(r, (IF Len(r) < PreviewRows THEN 0 ELSE Len(r) - PreviewRows) + 1, Len(r))]

\* line 89: preview = {"columns": cols, "rows": rows[:50]}
BuildPreview(c, r) == [columns |-> c, rows |-> Slice(r, PreviewRows)]

\* lines 89-97 and 114: the model call returns; main prints the [ANSWER] section
Summarize ==
    /\ pc = "summarize"
    /\ preview' = <<BuildPreview(cols, rows)>>
    /\ modelCalls' = modelCalls + 1
    /\ out' = Append(out, "ANSWER")
    /\ pc' = "input"
    /\ UNCHANGED <<line, q, candidate, sql, cols, rows, exc, conns, opened, executed>>

\* lines 89-97: the model call raises
SummarizeFails ==
    /\ pc = "summarize"
    /\ preview' = <<BuildPreview(cols, rows)>>
    /\ modelCalls' = modelCalls + 1
    /\ Raise("ModelError", <<>>)
    /\ UNCHANGED <<line, q, candidate, sql, cols, rows, out, conns, opened, executed>>

\* lines 115-116 as a handler that lets the exception end the process
ExceptUncaught ==
    /\ pc = "except"
    /\ pc' = "crashed"
    /\ UNCHANGED <<line, q, candidate, sql, cols, rows, preview, out, exc,
                   conns, opened, executed, modelCalls>>

\* lines 115-116: the exception is caught, the [ERROR] section is printed and the
\* loop goes back to input(); exc keeps what was printed
Except ==
    /\ pc = "except"
    /\ out' = Append(out, "ERROR")
    /\ pc' = "input"
    /\ UNCHANGED <<line, q, candidate, sql, cols, rows, preview, exc,
                   conns, opened, executed, modelCalls>>

\* the steps of one question, lines 105-116
Pipeline ==
    \/ ConnectSchema \/ ConnectSchemaFails
    \/ Introspect \/ IntrospectFails
    \/ (\E c \in Candidates : ModelSql(c)) \/ ModelSqlFails
    \/ Guardrail
    \/ ConnectExec \/ ConnectExecFails
    \/ (\E nc \in 0..MaxCols : \E n \in RowCounts : Execute(nc, n)) \/ ExecuteFails
    \/ Render
    \/ Summarize \/ SummarizeFails
    \/ Except

Next ==
    \/ \E l \in Lines : ReadInput(l)
    \/ ReadEOF
    \/ Pipeline

Spec == Init /\ [][Next]_vars

\* every blocking call of a question returns or raises: a started step finishes
LiveSpec == Spec /\ WF_vars(Pipeline)

(***************************************************************************)
(* Properties                                                              *)
(***************************************************************************)
\* the guardrail approved the model's text for the current line
Approved == Len(out) >= 1 /\ out[1] = "SQL"

\* the current line's question is over and the loop is back at input()
QuestionDone == pc = "input" /\ line # <<>>

\* C1: run_sql only ever executes a text the guardrail approved, one that
\* matches ^\s*select\b ignoring case and comes from a model output whose trimmed
\* text matches; a model output whose trimmed text does not match is rejected
\* with a ValueError carrying that text, and nothing is executed for that question.
C1_OnlyApprovedSqlRuns ==
    /\ \A i \in 1..Len(executed) :
          /\ candidate # <<>>
          /\ MatchSelect(Strip(candidate[1]))
          /\ MatchSelect(executed[i])
          /\ executed[i] = sql
          /\ Approved
    /\ (candidate # <<>> /\ pc # "guard" /\ ~MatchSelect(Strip(candidate[1]))) =>
          /\ exc = <<[kind |-> "ValueError", text |-> Strip(candidate[1])]>>
          /\ executed = <<>>
          /\ pc \in {"except", "input", "crashed"}
          /\ ~Approved

\* C1 witness: a question ended with the guardrail's rejection of "DROP;"
C1_Witness ==
    /\ QuestionDone
    /\ candidate = << <<68, 82, 79, 80, 59>> >>
    /\ exc # <<>> /\ exc[1].kind = "ValueError"
    /\ executed = <<>>

\* nothing but terminators and whitespace follows the first statement terminator
SingleStatement(s) ==
    \A i \in 1..Len(s) : s[i] = 59 =>
        \A j \in (i + 1)..Len(s) : IsSpace(s[j]) \/ s[j] = 59

\* C2: every text the guardrail approves is exactly one SELECT statement: no
\* further statement follows a statement terminator.
C2_ApprovedIsSingleSelect ==
    Approved => MatchSelect(sql) /\ SingleStatement(sql)

\* the number of [ERROR] sections in a sequence of printed sections
RECURSIVE ErrorCount(_)
ErrorCount(o) ==
    IF o = <<>> THEN 0
    ELSE (IF Head(o) = "ERROR" THEN 1 ELSE 0) + ErrorCount(Tail(o))

\* C3: an error raised by any step of a question is caught once, printed as one
\* [ERROR] section, and the loop awaits input again: a question being processed
\* always leads back to input(), and no failed question ends the process.
C3_ErrorsReturnToInput ==
    /\ (pc \notin {"input", "exited", "crashed"}) ~> (pc = "input")
    /\ [][pc' \in {"exited", "crashed"} => pc = "input"]_vars
    /\ []((QuestionDone /\ exc # <<>>) =>
            (out[Len(out)] = "ERROR" /\ ErrorCount(out) = 1))
    /\ [](exc = <<>> => ErrorCount(out) = 0)

\* C3 witness: a question that failed (in execution) and the loop awaits input
C3_Witness ==
    /\ QuestionDone
    /\ exc # <<>> /\ exc[1].kind = "DatabaseError"
    /\ executed # <<>>
    /\ out[Len(out)] = "ERROR"

\* the printed sections with both forms of [RESULT] named alike
Sections(o) == [i \in 1..Len(o) |-> IF o[i] = "RESULT (no rows)" THEN "RESULT" ELSE o[i]]

\* C4 as stated: a finished question printed [SQL], [RESULT], [ANSWER], or
\* [ERROR] alone.
C4_ErrorInsteadOfSections ==
    QuestionDone =>
        Sections(out) \in {<<"SQL", "RESULT", "ANSWER">>, <<"ERROR">>}

\* C4 amended: a finished question printed [SQL], [RESULT], [ANSWER], or the
\* sections printed before the failing step followed by [ERROR]: [ERROR] alone
\* when the failure precedes approval, [SQL] [ERROR] when execution fails,
\* [SQL] [RESULT] [ERROR] when summarization fails; never [ANSWER] with [ERROR].
C4_ErrorAfterPrintedSections ==
    QuestionDone =>
        /\ exc = <<>> => Sections(out) = <<"SQL", "RESULT", "ANSWER">>
        /\ (exc # <<>> /\ sql = <<>>) => Sections(out) = <<"ERROR">>
        /\ (exc # <<>> /\ sql # <<>> /\ preview = <<>>) =>
              Sections(out) = <<"SQL", "ERROR">>
        /\ (exc # <<>> /\ preview # <<>>) =>
              Sections(out) = <<"SQL", "RESULT", "ERROR">>

\* C4 witness: a question whose execution failed after [SQL] was printed
C4_Witness ==
    /\ QuestionDone
    /\ executed # <<>>
    /\ out = <<"SQL", "ERROR">>

\* C5: when an approved query runs and returns zero rows, the [RESULT] section
\* is the "(no rows)" notice, not a table.
C5_ZeroRowsShowNotice ==
    (Len(out) >= 2 /\ out[1] = "SQL" /\ out[2] # "ERROR" /\ rows = <<>>) =>
        out[2] = "RESULT (no rows)"

\* C6: each connection is closed on every exit path of the step that opened it:
\* only the step between connect and close holds one, so none is open while
\* awaiting input, during a model call or after a failure; the two uses of a
\* question each open their own.
C6_ConnectionsClosed ==
    /\ conns = (IF pc = "introspect" THEN {"schema"}
                ELSE IF pc = "execute" THEN {"exec"} ELSE {})
    /\ opened <= 2
    /\ (QuestionDone /\ exc = <<>>) => opened = 2

\* C6 witness: introspection failed on an open connection and the loop awaits input
C6_Witness ==
    /\ QuestionDone
    /\ exc # <<>> /\ exc[1].kind = "DatabaseError"
    /\ opened = 1 /\ modelCalls = 0
    /\ conns = {}

\* s without its trailing run of terminators and whitespace
StripTrailing(s) ==
    LET keep == {i \in 1..Len(s) : ~IsSpace(s[i]) /\ s[i] # 59}
    IN  IF keep = {} THEN <<>> ELSE SubSeq(s, 1, SetMax(keep))

\* C7 as stated: without a LIMIT <digits> token in the model output, the approved
\* text is the trimmed output with trailing terminators and whitespace stripped,
\* followed by " LIMIT 100;"; with one, it is the trimmed output.
C7_LimitRule ==
    Approved =>
        LET c == candidate[1]
        IN  IF ~SearchLimit(c)
            THEN sql = StripTrailing(Strip(c)) \o LimitSuffix
            ELSE sql = Strip(c)

\* C7 amended: without a LIMIT <digits> token, the approved text is the trimmed
\* output with its trailing ';' characters removed (whitespace in front of them
\* stays), followed by " LIMIT 100;"; with one, it is the trimmed output.
C7_LimitRuleKeepsInnerSpace ==
    Approved =>
        LET c == candidate[1]
            t == Strip(c)
            n == Len(sql) - Len(LimitSuffix)
        IN  IF ~SearchLimit(c)
            THEN /\ n >= 0 /\ n <= Len(t)
                 /\ SubSeq(sql, n + 1, Len(sql)) = LimitSuffix
                 /\ SubSeq(sql, 1, n) = SubSeq(t, 1, n)
                 /\ \A j \in (n + 1)..Len(t) : t[j] = 59
                 /\ n >= 1 => t[n] # 59
            ELSE sql = t

\* C7 witness: an approved output without a limit that ended in two terminators
C7_Witness ==
    /\ Approved
    /\ ~SearchLimit(candidate[1])
    /\ LET t == Strip(candidate[1])
       IN  Len(t) >= 2 /\ t[Len(t)] = 59 /\ t[Len(t) - 1] = 59

\* C8: the guardrail applied to a text it approved approves it and returns it
\* unchanged.
C8_GuardrailIdempotent ==
    Approved => MatchSelect(Strip(sql)) /\ WithLimit(Strip(sql)) = sql

\* C8 witness: an approved text to which the guardrail had appended the limit
C8_Witness ==
    /\ Approved
    /\ sql # Strip(candidate[1])

\* the input line is the exit command: "exit" or "quit" once trimmed and folded
IsExitCommand(l) == Lower(Strip(l)) \in {ExitWord, QuitWord}

\* C9: an exit/quit line ends the loop with no pipeline step attempted; any other
\* line goes through the pipeline and never ends the loop normally.
C9_ExitOnlyOnCommand ==
    /\ (line # <<>> /\ IsExitCommand(line[1])) =>
          /\ pc = "exited"
          /\ opened = 0 /\ modelCalls = 0 /\ executed = <<>> /\ out = <<>>
          /\ candidate = <<>> /\ conns = {}
    /\ pc = "exited" => (line # <<>> /\ IsExitCommand(line[1]))
    /\ (line # <<>> /\ ~IsExitCommand(line[1])) =>
          /\ pc # "exited"
          /\ pc = "input" => out # <<>>

\* C9 witness: the loop ended on the line "EXIT"
C9_Witness ==
    /\ pc = "exited"
    /\ line = << <<69, 88, 73, 84>> >>

\* C10: the preview holds every column name and the first min(50, n) rows of the
\* n rows, in order, never more than 50, and summarize leaves cols and rows as
\* they were.
C10_PreviewIsFirstFifty ==
    /\ [](preview # <<>> =>
            LET p == preview[1]
                m == IF Len(rows) < 50 THEN Len(rows) ELSE 50
            IN  /\ p.columns = cols
                /\ Len(p.rows) = m
                /\ Len(p.rows) <= 50
                /\ \A i \in 1..m : p.rows[i] = rows[i])
    /\ [][pc = "summarize" => (rows' = rows /\ cols' = cols)]_vars

\* C10 witness: a preview built from a result set of more than 50 rows
C10_Witness ==
    /\ preview # <<>>
    /\ Len(rows) > 50
    /\ Len(preview[1].rows) = 50

====
